---------------------------- MODULE Spec2Model ----------------------------
(* Email-Scheduler (src/app.py): the order store, the APScheduler job      *)
(* store, the pool threads that run send_reminder_email for a due job,     *)
(* and the Flask request handlers index, delete_order, send_order,         *)
(* delete_bulk and send_bulk.  One request is handled at a time; job       *)
(* threads interleave with it at every database and network operation.     *)
EXTENDS Integers, Sequences, FiniteSets, TLC

(* ----------------------------- bounds --------------------------------- *)
MaxOrders == 1
MaxRows == 2
MaxTicks == 1

(* ------------------------ program constants --------------------------- *)
None == 0
LeadMinutes == 240
ClampMinutes == 5

CsvFormats == {"familymeal", "dance_invoice"}

(* A template is a sequence of tokens: literal text or a {name} field.    *)
Lit(s) == <<"lit", s>>
Field(n) == <<"field", n>>

format_dict ==
  {"parent_name", "student_name", "invoice_num", "invoice_desp", "total",
   "invoice_url", "full_name", "order_number", "item_name", "pickup_time",
   "date_str"}

invoice_format_dict ==
  {"parent_name", "student_name", "invoice_num", "invoice_desp", "total",
   "invoice_url"}

default_subject(csv_format) ==
  IF csv_format = "dance_invoice"
  THEN <<Lit("[TVDA] "), Field("invoice_desp"), Field("student_name"),
         Field("invoice_num")>>
  ELSE <<Lit("[Bentolicious] "), Field("item_name"), Field("order_number")>>

default_body(csv_format) ==
  IF csv_format = "dance_invoice"
  THEN <<Lit("Dear "), Field("parent_name"), Field("student_name"),
         Field("invoice_desp"), Field("total"), Field("invoice_url"),
         Field("invoice_num")>>
  ELSE <<Lit("Hi "), Field("full_name"), Field("item_name"),
         Field("pickup_time")>>

(* The custom_subject / custom_body values a POST may carry.  The empty   *)
(* template stands for an absent or empty form field (both are falsy).    *)
CustomSubjects == { <<>>, <<Lit("Reminder for "), Field("full_name")>> }

CustomBodies == { <<>>, <<Lit("Hello "), Field("nickname")>> }

\* str.format with the dict d: raises KeyError when a field is not a key of d.
FormatAlwaysOk(template, keys) == TRUE

CanFormat(template, keys) ==
  \A i \in 1..Len(template) :
     template[i][1] = "field" => template[i][2] \in keys

Subject(row) ==
  IF row.custom_subject # <<>> THEN row.custom_subject
  ELSE default_subject(row.csv_format)

Body(row) ==
  IF row.custom_body # <<>> THEN row.custom_body
  ELSE default_body(row.csv_format)

(* The first try block of send_reminder_email.                            *)
RenderOk(row) ==
  /\ CanFormat(Subject(row), format_dict)
  /\ CanFormat(Body(row), format_dict)

(* The first try block of send_dance_invoice.                             *)
InvoiceRenderOk(custom_subject, custom_body) ==
  /\ CanFormat(IF custom_subject # <<>> THEN custom_subject
               ELSE default_subject("dance_invoice"), invoice_format_dict)
  /\ CanFormat(IF custom_body # <<>> THEN custom_body
               ELSE default_body("dance_invoice"), invoice_format_dict)

(* Resolved pickup date-times (minutes) that the rows of a batch carry.   *)
PickupTimes == {LeadMinutes, LeadMinutes + ClampMinutes}

(* A row holding a value that raises inside the row's try block before    *)
(* its INSERT is executed (a numpy integer psycopg2 cannot adapt, a date  *)
(* that overflows when the lead time is subtracted).                      *)
RaisingRow == 0 - 1

RowValues == PickupTimes \cup {RaisingRow}

(* Rows of a batch that insert an order.                                  *)
RECURSIVE Inserting(_)
Inserting(rows) ==
  IF rows = <<>> THEN 0
  ELSE (IF Head(rows) = RaisingRow THEN 0 ELSE 1) + Inserting(Tail(rows))

(* ------------------------- parse_pickup_time -------------------------- *)
(* Text is a sequence of one-character strings; a time of day is          *)
(* <<hour, minute>>.                                                      *)
Unparsed == <<>>
Midnight == <<0, 0>>

DigitChars == <<"0", "1", "2", "3", "4", "5", "6", "7", "8", "9">>
LowerChars == <<"a", "b", "c", "d", "e", "f", "g", "h", "i", "j", "k", "l",
                "m", "n", "o", "p", "q", "r", "s", "t", "u", "v", "w", "x",
                "y", "z">>
UpperChars == <<"A", "B", "C", "D", "E", "F", "G", "H", "I", "J", "K", "L",
                "M", "N", "O", "P", "Q", "R", "S", "T", "U", "V", "W", "X",
                "Y", "Z">>

Chars(t) == {t[i] : i \in 1..Len(t)}
IsDigit(c) == c \in Chars(DigitChars)
DigitVal(c) == (CHOOSE k \in 1..Len(DigitChars) : DigitChars[k] = c) - 1

(* str.strip()                                                            *)
RECURSIVE LStrip(_)
LStrip(t) == IF t # <<>> /\ Head(t) = " " THEN LStrip(Tail(t)) ELSE t

RECURSIVE RStrip(_)
RStrip(t) ==
  IF t # <<>> /\ t[Len(t)] = " " THEN RStrip(SubSeq(t, 1, Len(t) - 1))
  ELSE t

Strip(t) == RStrip(LStrip(t))

(* str.upper()                                                            *)
Upper(t) ==
  [i \in 1..Len(t) |->
     IF t[i] \in Chars(LowerChars)
     THEN UpperChars[CHOOSE k \in 1..Len(LowerChars) : LowerChars[k] = t[i]]
     ELSE t[i]]

(* re.sub(r'(\d)([AP]M)', r'\1 \2', t)                                    *)
RECURSIVE SpaceBeforeMeridiem(_)
SpaceBeforeMeridiem(t) ==
  IF t = <<>> THEN <<>>
  ELSE IF /\ Len(t) >= 3 /\ IsDigit(t[1])
          /\ t[2] \in {"A", "P"} /\ t[3] = "M"
  THEN <<t[1], " ", t[2], t[3]>> \o SpaceBeforeMeridiem(SubSeq(t, 4, Len(t)))
  ELSE <<t[1]>> \o SpaceBeforeMeridiem(Tail(t))

(* re.sub(r'[^0-9: AMPM]', '', t)                                         *)
KeepTimeChars(t) ==
  SelectSeq(t, LAMBDA c : IsDigit(c) \/ c \in {":", " ", "A", "M", "P"})

(* t.split('-')[0]                                                        *)
RECURSIVE BeforeDash(_)
BeforeDash(t) ==
  IF t = <<>> \/ Head(t) = "-" THEN <<>>
  ELSE <<Head(t)>> \o BeforeDash(Tail(t))

(* The strptime directives %I, %M and %p.                                 *)
IsHour12(h) ==
  \/ Len(h) = 1 /\ IsDigit(h[1]) /\ h[1] # "0"
  \/ Len(h) = 2 /\ h[1] = "0" /\ IsDigit(h[2]) /\ h[2] # "0"
  \/ Len(h) = 2 /\ h[1] = "1" /\ h[2] \in {"0", "1", "2"}

IsMinute(m) ==
  \/ Len(m) = 1 /\ IsDigit(m[1])
  \/ Len(m) = 2 /\ m[1] \in {"0", "1", "2", "3", "4", "5"} /\ IsDigit(m[2])

NumVal(d) ==
  IF Len(d) = 1 THEN DigitVal(d[1]) ELSE 10 * DigitVal(d[1]) + DigitVal(d[2])

IsMeridiem(p) == p \in {<<"A", "M">>, <<"P", "M">>}

IsSpaces(sp) == sp # <<>> /\ \A i \in 1..Len(sp) : sp[i] = " "

TimeOf(h, m, p) ==
  << IF p = <<"P", "M">>
     THEN (IF NumVal(h) = 12 THEN 12 ELSE NumVal(h) + 12)
     ELSE (IF NumVal(h) = 12 THEN 0 ELSE NumVal(h)),
     IF m = <<>> THEN 0 ELSE NumVal(m) >>

(* datetime.strptime(t, "%I:%M %p").time(); Unparsed for ValueError.      *)
strptime_IMp(t) ==
  LET n == Len(t)
      fits == {c \in (1..n) \X (1..n) :
                 /\ t[c[1]] = ":" /\ c[1] < c[2] /\ c[2] <= n - 3
                 /\ IsHour12(SubSeq(t, 1, c[1] - 1))
                 /\ IsMinute(SubSeq(t, c[1] + 1, c[2]))
                 /\ IsSpaces(SubSeq(t, c[2] + 1, n - 2))
                 /\ IsMeridiem(SubSeq(t, n - 1, n))}
  IN IF fits = {} THEN Unparsed
     ELSE LET c == CHOOSE c \in fits : TRUE
          IN TimeOf(SubSeq(t, 1, c[1] - 1), SubSeq(t, c[1] + 1, c[2]),
                    SubSeq(t, n - 1, n))

(* datetime.strptime(t, "%I %p").time(); Unparsed for ValueError.         *)
strptime_Ip(t) ==
  LET n == Len(t)
      fits == {i \in 1..n :
                 /\ i <= n - 3
                 /\ IsHour12(SubSeq(t, 1, i))
                 /\ IsSpaces(SubSeq(t, i + 1, n - 2))
                 /\ IsMeridiem(SubSeq(t, n - 1, n))}
  IN IF fits = {} THEN Unparsed
     ELSE LET i == CHOOSE i \in fits : TRUE
          IN TimeOf(SubSeq(t, 1, i), <<>>, SubSeq(t, n - 1, n))

parse_pickup_time(text) ==
  IF text = <<>> THEN Midnight
  ELSE LET spaced == SpaceBeforeMeridiem(Upper(Strip(text)))
           cleaned == KeepTimeChars(spaced)
           start == IF "-" \in Chars(cleaned) THEN Strip(BeforeDash(cleaned))
                    ELSE cleaned
       IN IF strptime_IMp(start) # Unparsed THEN strptime_IMp(start)
          ELSE IF strptime_Ip(start) # Unparsed THEN strptime_Ip(start)
          ELSE Midnight

(* Pickup texts of the kinds the CSV columns hold.                        *)
HourTexts == {<<"4">>, <<"1", "1">>, <<"1", "2">>}
MinuteTexts == {<<>>, <<":", "3", "0">>, <<":", "0", "0">>}
MeridiemTexts == {<<"P", "M">>, <<"A", "M">>, <<" ", "P", "M">>, <<"p", "m">>}

TimeTexts ==
  {h \o m \o p : h \in HourTexts, m \in MinuteTexts, p \in MeridiemTexts}

EndTexts == {<<"7", ":", "3", "0", "P", "M">>, <<"2", "P", "M">>}

RangeTexts == {a \o <<"-">> \o b : a \in TimeTexts, b \in EndTexts}

PickupTexts ==
  TimeTexts \cup RangeTexts \cup
  { <<>>, <<"n", "o", "o", "n">>, <<" ", "4", ":", "3", "0", "P", "M", " ">>,
    <<"L", "u", "n", "c", "h", ":", " ", "1", "1", ":", "0", "0", "P", "M">> }

(* --------------------------- finite maps ------------------------------ *)
EmptyMap == [x \in {} |-> None]
Put(f, k, v) == [x \in DOMAIN f \cup {k} |-> IF x = k THEN v ELSE f[x]]
Drop(f, K) == [x \in DOMAIN f \ K |-> f[x]]

OrderIds == 1..MaxOrders

(* Ids a request may name: every id the store can hold and one it never   *)
(* holds.                                                                 *)
RequestIds == 1..(MaxOrders + 1)

RECURSIVE SeqsUpTo(_, _)
SeqsUpTo(S, n) ==
  IF n = 0 THEN {<<>>}
  ELSE LET shorter == SeqsUpTo(S, n - 1)
       IN shorter \cup {Append(s, x) : s \in shorter, x \in S}

RECURSIVE Ascending(_)
Ascending(S) ==
  IF S = {} THEN <<>>
  ELSE LET m == CHOOSE x \in S : \A y \in S : x <= y
       IN <<m>> \o Ascending(S \ {m})

(* request.form.getlist('orders[]'): the ids of the checked rows.         *)
BulkLists == {Ascending(S) : S \in (SUBSET RequestIds) \ {{}}}

(* The parsed rows of an uploaded file: at most one row raises.           *)
Batches ==
  {rows \in SeqsUpTo(RowValues, MaxRows) \ {<<>>} :
     Len(rows) - Inserting(rows) <= 1}

(* ------------------------------ state --------------------------------- *)
VARIABLES
  now,        \* datetime.now(tz=LOCAL_TZ), in minutes
  orders,     \* committed rows of table orders: id -> row
  nextId,     \* the SERIAL sequence of orders.id
  jobs,       \* the scheduler's job store
  nextJob,    \* source of fresh job ids
  running,    \* executions of send_reminder_email on scheduler threads
  req,        \* the request being handled, its position and locals
  txn,        \* uncommitted writes of the request's connection
  flashes,    \* messages flashed by the request
  delivered,  \* successful yag.send calls per order id
  removed,    \* status and job_id of the rows deleted, as the handler read them
  pickup_str,       \* argument of a call of parse_pickup_time
  pickup_time_obj   \* what that call returned, once it has

vars == <<now, orders, nextId, jobs, nextJob, running, req, txn, flashes,
          delivered, removed, pickup_str, pickup_time_obj>>

IdleReq ==
  [op |-> "none", pc |-> "done", args |-> <<>>, ids |-> <<>>, count |-> 0,
   rows |-> <<>>, csv_format |-> "familymeal", custom_subject |-> <<>>,
   custom_body |-> <<>>, send_time |-> 0, id |-> None]

NoTxn == [rows |-> EmptyMap, dels |-> {}]

Init ==
  /\ now = 0
  /\ orders = EmptyMap
  /\ nextId = 1
  /\ jobs = {}
  /\ nextJob = 1
  /\ running = {}
  /\ req = IdleReq
  /\ txn = NoTxn
  /\ flashes = <<>>
  /\ delivered = [o \in OrderIds |-> 0]
  /\ removed = EmptyMap
  /\ pickup_str = <<>>
  /\ pickup_time_obj = Unparsed

Flash(category, message, n) ==
  [category |-> category, message |-> message, n |-> n]

(* The handler has returned: only the request and its flashes remain.     *)
Done(r) == [IdleReq EXCEPT !.op = r.op, !.args = r.args]

Selected(row) == [status |-> row.status, job_id |-> row.job_id]

(* ----------------------------- scheduler ------------------------------ *)
add_job_twice(js, jid, order_id, run_date) ==
  js \cup {[id |-> jid, order_id |-> order_id, run_date |-> run_date],
           [id |-> jid + MaxOrders, order_id |-> order_id,
            run_date |-> run_date]}

add_job(js, jid, order_id, run_date) ==
  js \cup {[id |-> jid, order_id |-> order_id, run_date |-> run_date]}

(* scheduler.remove_job inside try/except: a missing job is ignored.      *)
remove_job(js, job_id) == {j \in js : j.id # job_id}

(* Whether the JobLookupError of a missing job leaves the handler: the    *)
(* call sits in try/except Exception: pass, so it never does.             *)
remove_job_unguarded(js, job_id) == \A j \in js : j.id # job_id

remove_job_escapes(js, job_id) == FALSE

(* The except branch around yag.send: the row is left as it is.           *)
send_failed_reset(os, order_id) ==
  IF order_id \in DOMAIN os
  THEN [os EXCEPT ![order_id].status = "pending"]
  ELSE os

send_failed(os, order_id) == os

(* `if row:` and `if status == 'pending':` of send_order and send_bulk.   *)
IsStored(os, order_id) == order_id \in DOMAIN os

IsPending(os, order_id) ==
  order_id \in DOMAIN os /\ os[order_id].status = "pending"

(* The status UPDATE of send_reminder_email; no row, no change.           *)
mark_sent(os, order_id) ==
  IF order_id \in DOMAIN os
  THEN [os EXCEPT ![order_id].status = "sent"]
  ELSE os

Tick ==
  /\ now + ClampMinutes <= MaxTicks * ClampMinutes
  /\ now' = now + ClampMinutes
  /\ UNCHANGED <<pickup_str, pickup_time_obj,
                 orders, nextId, jobs, nextJob, running, req, txn, flashes,
                 delivered, removed>>

(* A due job is handed to a pool thread and leaves the job store.         *)
SchedulerFire ==
  \E j \in jobs :
    /\ j.run_date <= now
    /\ jobs' = jobs \ {j}
    /\ running' = running \cup
         {[job |-> j.id, id |-> j.order_id, pc |-> "fetch", seen |-> "none"]}
    /\ UNCHANGED <<pickup_str, pickup_time_obj,
                   now, orders, nextId, nextJob, req, txn, flashes,
                   delivered, removed>>

(* send_reminder_email on a scheduler thread: SELECT and format.          *)
FireFetch ==
  \E r \in running :
    /\ r.pc = "fetch"
    /\ IF r.id \in DOMAIN orders /\ RenderOk(orders[r.id])
       THEN running' = (running \ {r}) \cup
              {[r EXCEPT !.pc = "send", !.seen = orders[r.id].status]}
       ELSE running' = running \ {r}
    /\ UNCHANGED <<pickup_str, pickup_time_obj,
                   now, orders, nextId, jobs, nextJob, req, txn, flashes,
                   delivered, removed>>

(* yag.send on a scheduler thread: the transport succeeds or raises.      *)
Dispatch(r, ok) ==
  /\ r.pc = "send"
  /\ IF ok
     THEN /\ delivered' = [delivered EXCEPT ![r.id] = @ + 1]
          /\ running' = (running \ {r}) \cup {[r EXCEPT !.pc = "update"]}
     ELSE /\ delivered' = delivered
          /\ running' = running \ {r}
  /\ orders' = IF ok THEN orders ELSE send_failed(orders, r.id)
  /\ UNCHANGED <<pickup_str, pickup_time_obj,
                 now, nextId, jobs, nextJob, req, txn, flashes, removed>>

FireSend == \E r \in running, ok \in BOOLEAN : Dispatch(r, ok)

(* UPDATE ... SET status and commit on a scheduler thread; the UPDATE     *)
(* waits while another transaction holds the row deleted and uncommitted. *)
FireUpdate ==
  \E r \in running :
    /\ r.pc = "update"
    /\ r.id \notin txn.dels
    /\ orders' = mark_sent(orders, r.id)
    /\ running' = running \ {r}
    /\ UNCHANGED <<pickup_str, pickup_time_obj,
                   now, nextId, jobs, nextJob, req, txn, flashes, delivered,
                   removed>>


(* ------------------- index (POST): import of a batch ------------------ *)
NewRowPending(csv_format, send_time, status, custom_subject, custom_body) ==
  [status |-> "pending", job_id |-> None, csv_format |-> csv_format,
   send_time |-> send_time, custom_subject |-> custom_subject,
   custom_body |-> custom_body]

NewRow(csv_format, send_time, status, custom_subject, custom_body) ==
  [status |-> status, job_id |-> None, csv_format |-> csv_format,
   send_time |-> send_time, custom_subject |-> custom_subject,
   custom_body |-> custom_body]

StartImport ==
  \E csv_format \in CsvFormats, custom_subject \in CustomSubjects,
     custom_body \in CustomBodies,
     rows \in Batches :
    /\ req.pc = "done"
    /\ nextId + Inserting(rows) - 1 <= MaxOrders
    /\ req' = [IdleReq EXCEPT !.op = "index", !.pc = "row", !.rows = rows,
                              !.args = rows,
                              !.csv_format = csv_format,
                              !.custom_subject = custom_subject,
                              !.custom_body = custom_body]
    /\ txn' = NoTxn
    /\ flashes' = <<>>
    /\ UNCHANGED <<pickup_str, pickup_time_obj,
                   now, orders, nextId, jobs, nextJob, running, delivered,
                   removed>>

(* A dance_invoice row: INSERT with status 'sent', commit, then           *)
(* send_dance_invoice, which formats and sends and swallows both errors.  *)
ImportRowInvoice ==
  \E ok \in BOOLEAN :
    /\ req.op = "index" /\ req.pc = "row" /\ req.rows # <<>>
    /\ Head(req.rows) # RaisingRow
    /\ req.csv_format = "dance_invoice"
    /\ orders' = Put(orders, nextId,
                     NewRow(req.csv_format, now, "sent", req.custom_subject,
                            req.custom_body))
    /\ nextId' = nextId + 1
    /\ delivered' =
         IF InvoiceRenderOk(req.custom_subject, req.custom_body) /\ ok
         THEN [delivered EXCEPT ![nextId] = @ + 1]
         ELSE delivered
    /\ req' = [req EXCEPT !.rows = Tail(@), !.count = @ + 1]
    /\ UNCHANGED <<pickup_str, pickup_time_obj,
                   now, jobs, nextJob, running, txn, flashes, removed>>

(* pickup_datetime - timedelta(hours=4), moved to now + 5 minutes when    *)
(* it lies in the past.                                                   *)
SendTimeClampDue(pickup_datetime, t) ==
  IF pickup_datetime - LeadMinutes <= t
  THEN t + ClampMinutes
  ELSE pickup_datetime - LeadMinutes

SendTime(pickup_datetime, t) ==
  IF pickup_datetime - LeadMinutes < t
  THEN t + ClampMinutes
  ELSE pickup_datetime - LeadMinutes

(* The except branch of the row loop: flash the error, go on with the    *)
(* next row.                                                              *)
abort_batch(rows) == <<>>

next_row(rows) == Tail(rows)

ImportRowFails ==
  /\ req.op = "index" /\ req.pc = "row" /\ req.rows # <<>>
  /\ Head(req.rows) = RaisingRow
  /\ flashes' = Append(flashes,
                       Flash("error", "Error processing row",
                             Len(req.args) - Len(req.rows) + 1))
  /\ req' = [req EXCEPT !.rows = next_row(@)]
  /\ UNCHANGED <<pickup_str, pickup_time_obj,
                 now, orders, nextId, jobs, nextJob, running, txn,
                 delivered, removed>>

ImportRowResolve ==
  /\ req.op = "index" /\ req.pc = "row" /\ req.rows # <<>>
  /\ Head(req.rows) # RaisingRow
  /\ req.csv_format # "dance_invoice"
  /\ req' = [req EXCEPT !.pc = "insert",
                        !.send_time = SendTime(Head(req.rows), now)]
  /\ UNCHANGED <<pickup_str, pickup_time_obj,
                 now, orders, nextId, jobs, nextJob, running, txn, flashes,
                 delivered, removed>>

(* INSERT ... RETURNING id (uncommitted), then either add_job and the     *)
(* job_id UPDATE, or the call of send_reminder_email.                     *)
ImportRowInsert ==
  /\ req.op = "index" /\ req.pc = "insert"
  /\ nextId' = nextId + 1
  /\ IF req.send_time > now
     THEN /\ jobs' = add_job(jobs, nextJob, nextId, req.send_time)
          /\ nextJob' = nextJob + 1
          /\ txn' = [txn EXCEPT !.rows =
                Put(@, nextId,
                    [NewRow(req.csv_format, req.send_time, "pending",
                            req.custom_subject, req.custom_body)
                       EXCEPT !.job_id = nextJob])]
          /\ req' = [req EXCEPT !.pc = "row", !.rows = Tail(@),
                                !.count = @ + 1]
     ELSE /\ UNCHANGED <<jobs, nextJob>>
          /\ txn' = [txn EXCEPT !.rows =
                Put(@, nextId,
                    NewRow(req.csv_format, req.send_time, "pending",
                           req.custom_subject, req.custom_body))]
          /\ req' = [req EXCEPT !.pc = "fetch", !.id = nextId,
                                !.rows = Tail(@)]
  /\ UNCHANGED <<pickup_str, pickup_time_obj,
                 now, orders, running, flashes, delivered, removed>>

(* conn.commit() after the loop and the success flash.                    *)
ImportCommit ==
  /\ req.op = "index" /\ req.pc = "row" /\ req.rows = <<>>
  /\ orders' = [o \in DOMAIN orders \cup DOMAIN txn.rows |->
                  IF o \in DOMAIN txn.rows THEN txn.rows[o] ELSE orders[o]]
  /\ txn' = NoTxn
  /\ flashes' = Append(flashes,
                       Flash("success", "Successfully processed", req.count))
  /\ req' = [IdleReq EXCEPT !.op = "index"]
  /\ UNCHANGED <<pickup_str, pickup_time_obj,
                 now, nextId, jobs, nextJob, running, delivered, removed>>

(* -------- send_reminder_email called by the request's thread ---------- *)
(* What the caller does once send_reminder_email has returned.            *)
Return(fl) ==
  CASE req.op = "send_order" ->
         /\ req' = Done(req)
         /\ flashes' = Append(fl, Flash("success", "Email sent successfully",
                                        req.id))
         /\ txn' = txn
    [] req.op = "send_bulk" ->
         /\ req' = [req EXCEPT !.pc = "loop", !.count = @ + 1]
         /\ flashes' = fl
         /\ txn' = txn
    [] OTHER ->
         /\ req' = [req EXCEPT !.pc = "row", !.count = @ + 1]
         /\ flashes' = fl
         /\ txn' = [txn EXCEPT !.rows[req.id].status = "sent",
                               !.rows[req.id].job_id = None]

WebFetch ==
  /\ req.pc = "fetch"
  /\ IF req.id \notin DOMAIN orders
     THEN Return(flashes)
     ELSE IF ~RenderOk(orders[req.id])
     THEN Return(Append(flashes,
                        Flash("error", "Error formatting email", req.id)))
     ELSE /\ req' = [req EXCEPT !.pc = "send"]
          /\ UNCHANGED <<txn, flashes>>
  /\ UNCHANGED <<pickup_str, pickup_time_obj,
                 now, orders, nextId, jobs, nextJob, running, delivered,
                 removed>>

WebSend ==
  \E ok \in BOOLEAN :
    /\ req.pc = "send"
    /\ IF ok
       THEN /\ delivered' = [delivered EXCEPT ![req.id] = @ + 1]
            /\ req' = [req EXCEPT !.pc = "update"]
            /\ UNCHANGED <<txn, flashes>>
       ELSE /\ delivered' = delivered
            /\ Return(Append(flashes,
                             Flash("error", "Error sending email", req.id)))
    /\ orders' = IF ok THEN orders ELSE send_failed(orders, req.id)
    /\ UNCHANGED <<pickup_str, pickup_time_obj,
                   now, nextId, jobs, nextJob, running, removed>>

WebUpdate ==
  /\ req.pc = "update"
  /\ orders' = mark_sent(orders, req.id)
  /\ Return(flashes)
  /\ UNCHANGED <<pickup_str, pickup_time_obj,
                 now, nextId, jobs, nextJob, running, delivered, removed>>

(* ----------------------------- send_order ----------------------------- *)
send_order ==
  \E order_id \in RequestIds :
    /\ req.pc = "done"
    /\ txn' = NoTxn
    /\ flashes' = <<>>
    /\ IF /\ IsPending(orders, order_id)
          /\ ~( /\ orders[order_id].job_id # None
                /\ remove_job_escapes(jobs, orders[order_id].job_id) )
       THEN /\ jobs' = IF orders[order_id].job_id # None
                       THEN remove_job(jobs, orders[order_id].job_id)
                       ELSE jobs
            /\ req' = [IdleReq EXCEPT !.op = "send_order", !.pc = "fetch",
                                      !.args = <<order_id>>,
                                      !.id = order_id]
       ELSE /\ jobs' = jobs
            /\ req' = [IdleReq EXCEPT !.op = "send_order",
                                      !.args = <<order_id>>]
    /\ UNCHANGED <<pickup_str, pickup_time_obj,
                   now, orders, nextId, nextJob, running, delivered, removed>>

(* ----------------------------- delete_order --------------------------- *)
delete_order ==
  \E order_id \in RequestIds :
    /\ req.pc = "done"
    /\ txn' = NoTxn
    /\ LET cancel == /\ order_id \in DOMAIN orders
                     /\ orders[order_id].status = "pending"
                     /\ orders[order_id].job_id # None
           escapes == /\ cancel
                      /\ remove_job_escapes(jobs, orders[order_id].job_id)
       IN /\ jobs' = IF cancel
                     THEN remove_job(jobs, orders[order_id].job_id)
                     ELSE jobs
          /\ orders' = IF escapes THEN orders ELSE Drop(orders, {order_id})
          /\ removed' = IF order_id \in DOMAIN orders /\ ~escapes
                        THEN Put(removed, order_id, Selected(orders[order_id]))
                        ELSE removed
          /\ flashes' = IF escapes THEN <<>>
                        ELSE <<Flash("success", "Order deleted successfully",
                                     order_id)>>
    /\ req' = [IdleReq EXCEPT !.op = "delete_order", !.args = <<order_id>>]
    /\ UNCHANGED <<pickup_str, pickup_time_obj,
                   now, nextId, nextJob, running, delivered>>

(* ----------------------------- delete_bulk ---------------------------- *)
StartDeleteBulk ==
  \E ids \in BulkLists :
    /\ req.pc = "done"
    /\ req' = [IdleReq EXCEPT !.op = "delete_bulk", !.pc = "loop",
                              !.args = ids, !.ids = ids]
    /\ txn' = NoTxn
    /\ flashes' = <<>>
    /\ UNCHANGED <<pickup_str, pickup_time_obj,
                   now, orders, nextId, jobs, nextJob, running, delivered,
                   removed>>

(* One iteration: SELECT, remove_job, DELETE (uncommitted).               *)
DeleteBulkStep ==
  /\ req.op = "delete_bulk" /\ req.pc = "loop" /\ req.ids # <<>>
  /\ LET order_id == Head(req.ids)
         found == order_id \in DOMAIN orders /\ order_id \notin txn.dels
         cancel == /\ found
                   /\ orders[order_id].status = "pending"
                   /\ orders[order_id].job_id # None
         escapes == cancel /\ remove_job_escapes(jobs, orders[order_id].job_id)
     IN /\ jobs' = IF cancel
                   THEN remove_job(jobs, orders[order_id].job_id)
                   ELSE jobs
        /\ txn' = IF escapes THEN NoTxn
                  ELSE IF found THEN [txn EXCEPT !.dels = @ \cup {order_id}]
                  ELSE txn
        /\ req' = IF escapes THEN Done(req)
                  ELSE [req EXCEPT !.ids = Tail(@),
                                   !.count = IF found THEN @ + 1 ELSE @]
  /\ UNCHANGED <<pickup_str, pickup_time_obj,
                 now, orders, nextId, nextJob, running, flashes, delivered,
                 removed>>

(* conn.commit() after the loop and the flash of deleted_count.           *)
DeleteBulkCommit ==
  /\ req.op = "delete_bulk" /\ req.pc = "loop" /\ req.ids = <<>>
  /\ orders' = Drop(orders, txn.dels)
  /\ removed' = [o \in DOMAIN removed \cup txn.dels |->
                   IF o \in txn.dels THEN Selected(orders[o])
                   ELSE removed[o]]
  /\ txn' = NoTxn
  /\ flashes' = Append(flashes, Flash("success", "Deleted", req.count))
  /\ req' = Done(req)
  /\ UNCHANGED <<pickup_str, pickup_time_obj,
                 now, nextId, jobs, nextJob, running, delivered>>

(* ------------------------------ send_bulk ----------------------------- *)
StartSendBulk ==
  \E ids \in BulkLists :
    /\ req.pc = "done"
    /\ req' = [IdleReq EXCEPT !.op = "send_bulk", !.pc = "loop",
                              !.args = ids, !.ids = ids]
    /\ txn' = NoTxn
    /\ flashes' = <<>>
    /\ UNCHANGED <<pickup_str, pickup_time_obj,
                   now, orders, nextId, jobs, nextJob, running, delivered,
                   removed>>

(* One iteration up to the call of send_reminder_email.                   *)
SendBulkStep ==
  /\ req.op = "send_bulk" /\ req.pc = "loop" /\ req.ids # <<>>
  /\ LET order_id == Head(req.ids)
         pending == IsPending(orders, order_id)
         cancel == pending /\ orders[order_id].job_id # None
         escapes == cancel /\ remove_job_escapes(jobs, orders[order_id].job_id)
     IN /\ jobs' = IF cancel
                   THEN remove_job(jobs, orders[order_id].job_id)
                   ELSE jobs
        /\ req' = IF escapes THEN Done(req)
                  ELSE IF pending
                  THEN [req EXCEPT !.ids = Tail(@), !.pc = "fetch",
                                   !.id = order_id]
                  ELSE [req EXCEPT !.ids = Tail(@)]
  /\ UNCHANGED <<pickup_str, pickup_time_obj,
                 now, orders, nextId, nextJob, running, txn, flashes,
                 delivered, removed>>

(* The flash of sent_count after the loop.                                *)
SendBulkDone ==
  /\ req.op = "send_bulk" /\ req.pc = "loop" /\ req.ids = <<>>
  /\ flashes' = Append(flashes, Flash("success", "Sent", req.count))
  /\ req' = Done(req)
  /\ UNCHANGED <<pickup_str, pickup_time_obj,
                 now, orders, nextId, jobs, nextJob, running, txn, delivered,
                 removed>>

(* --------------------------- specification ---------------------------- *)
Next ==
  \/ Tick
  \/ SchedulerFire
  \/ FireFetch
  \/ FireSend
  \/ FireUpdate
  \/ StartImport
  \/ ImportRowInvoice
  \/ ImportRowFails
  \/ ImportRowResolve
  \/ ImportRowInsert
  \/ ImportCommit
  \/ WebFetch
  \/ WebSend
  \/ WebUpdate
  \/ send_order
  \/ delete_order
  \/ StartDeleteBulk
  \/ DeleteBulkStep
  \/ DeleteBulkCommit
  \/ StartSendBulk
  \/ SendBulkStep
  \/ SendBulkDone

Spec == Init /\ [][Next]_vars

(* ---------------- parse_pickup_time on its own inputs ----------------- *)
InitParse ==
  /\ now = 0
  /\ orders = EmptyMap
  /\ nextId = 1
  /\ jobs = {}
  /\ nextJob = 1
  /\ running = {}
  /\ req = IdleReq
  /\ txn = NoTxn
  /\ flashes = <<>>
  /\ delivered = [o \in OrderIds |-> 0]
  /\ removed = EmptyMap
  /\ pickup_str \in PickupTexts
  /\ pickup_time_obj = Unparsed

ParsePickupTime ==
  /\ pickup_time_obj = Unparsed
  /\ pickup_time_obj' = parse_pickup_time(pickup_str)
  /\ UNCHANGED <<now, orders, nextId, jobs, nextJob, running, req, txn,
                 flashes, delivered, removed, pickup_str>>

NextParse == ParsePickupTime

SpecParse == InitParse /\ [][NextParse]_vars

TypeOK ==
  /\ now \in 0..(MaxTicks * ClampMinutes)
  /\ nextId \in 1..(MaxOrders + 1)
  /\ DOMAIN orders \subseteq OrderIds
  /\ \A o \in DOMAIN orders : orders[o].status \in {"pending", "sent"}

(* ------- imports and scheduled fires only, transport succeeding ------- *)
FireDelivers == \E r \in running : Dispatch(r, TRUE)

NextLive ==
  \/ Tick
  \/ SchedulerFire
  \/ FireFetch
  \/ FireDelivers
  \/ FireUpdate
  \/ StartImport
  \/ ImportRowInvoice
  \/ ImportRowFails
  \/ ImportRowResolve
  \/ ImportRowInsert
  \/ ImportCommit
  \/ WebFetch

(* The clock advances, the scheduler runs every due job, a started        *)
(* handler runs to its end.                                               *)
SpecLive ==
  /\ Init /\ [][NextLive]_vars
  /\ WF_vars(Tick) /\ WF_vars(SchedulerFire) /\ WF_vars(FireFetch)
  /\ WF_vars(FireDelivers) /\ WF_vars(FireUpdate)
  /\ WF_vars(ImportRowInvoice) /\ WF_vars(ImportRowFails)
  /\ WF_vars(ImportRowResolve) /\ WF_vars(ImportRowInsert)
  /\ WF_vars(ImportCommit) /\ WF_vars(WebFetch)

(* ------------------------------ claims -------------------------------- *)

\* C1: for every order id, in every interleaving of the scheduled fire,
\* send_order and send_bulk, at most one dispatch (yag.send) for that order
\* ever succeeds.
C1_AtMostOneDispatch == \A o \in OrderIds : delivered[o] <= 1

\* C2: when the order is no longer pending at the fire handler's re-fetch,
\* the handler is a no-op: a scheduler thread that fetched a row whose status
\* was not pending never gets past a successful dispatch to the status UPDATE.
C2_FireNoopUnlessPending ==
  \A r \in running : r.pc = "update" => r.seen = "pending"

\* C3: after a manual send (send_order) of a pending order whose dispatch
\* succeeded, the order has status sent and its job_id is none.
C3_ManualSendClearsTrigger ==
  \A o \in DOMAIN orders :
    ( /\ req.op = "send_order" /\ req.pc = "done" /\ req.args = <<o>>
      /\ flashes = <<Flash("success", "Email sent successfully", o)>>
      /\ delivered[o] >= 1 )
    => (orders[o].status = "sent" /\ orders[o].job_id = None)

\* C4: once delete_order or delete_bulk has removed a pending order that
\* carried a trigger, no step ever dispatches for that order again.
C4_NoDispatchAfterDelete ==
  [][\A o \in DOMAIN removed :
       (removed[o].status = "pending" /\ removed[o].job_id # None)
       => delivered'[o] = delivered[o]]_vars

\* C5: every stored order with status sent has job_id none.
C5_SentHasNoTrigger ==
  \A o \in DOMAIN orders :
    orders[o].status = "sent" => orders[o].job_id = None

C7_StatusForwardOnly ==
  [][\A o \in DOMAIN orders :
       orders[o].status = "sent" =>
         IF o \in DOMAIN orders'
         THEN orders'[o] = orders[o]
         ELSE req'.op \in {"delete_order", "delete_bulk"}]_vars

\* C7 witness: a scheduler thread is about to run its status UPDATE on an
\* order that is already sent.
C7_Witness ==
  \E r \in running :
    /\ r.pc = "update"
    /\ r.id \in DOMAIN orders
    /\ orders[r.id].status = "sent"

\* C8: when the dispatch inside a manual send fails, the order's status is
\* still pending and its job_id has been cleared when the request returns.
C8_FailedDispatchClearsTrigger ==
  \A o \in DOMAIN orders :
    ( /\ req.op = "send_order" /\ req.pc = "done" /\ req.args = <<o>>
      /\ \E i \in 1..Len(flashes) :
           flashes[i] = Flash("error", "Error sending email", o) )
    => (orders[o].status = "pending" /\ orders[o].job_id = None)

\* A custom override names a placeholder that is not in the placeholder map.
ReferencesUnknown(row) ==
  \E t \in {row.custom_subject, row.custom_body} :
    \E i \in 1..Len(t) : t[i][1] = "field" /\ t[i][2] \notin format_dict

\* C9: for a stored order whose custom subject or body references a
\* placeholder missing from the placeholder map, no step (fire, send_order,
\* send_bulk) dispatches for it or changes its status.
C9_UnknownPlaceholderNoSend ==
  [][\A o \in DOMAIN orders :
       ReferencesUnknown(orders[o]) =>
         /\ delivered'[o] = delivered[o]
         /\ o \in DOMAIN orders' => orders'[o].status = orders[o].status]_vars

\* C9 witness: a manual send of a pending order with such an override has
\* returned with the formatting error, nothing dispatched, status pending.
C9_Witness ==
  \E o \in DOMAIN orders :
    /\ ReferencesUnknown(orders[o])
    /\ req.op \in {"send_order", "send_bulk"}
    /\ \E i \in 1..Len(flashes) :
         flashes[i] = Flash("error", "Error formatting email", o)
    /\ orders[o].status = "pending"
    /\ delivered[o] = 0

\* C10: a delete_bulk or send_bulk over a list holding an id with no stored
\* order has, when it returns, handled every valid id of the list (deleted
\* it, or left no listed order pending without a send attempt) and its
\* result reports the invalid id as failed.
C10_BulkReportsInvalid ==
  \A i \in 1..Len(req.args) :
    ( /\ req.op \in {"delete_bulk", "send_bulk"} /\ req.pc = "done"
      /\ req.args[i] >= nextId )
    => /\ req.op = "delete_bulk" =>
            \A k \in 1..Len(req.args) : req.args[k] \notin DOMAIN orders
       /\ \E k \in 1..Len(flashes) :
            flashes[k].category = "error" /\ flashes[k].n = req.args[i]

\* C11: every order imported with csv_format dance_invoice is stored with
\* status sent and job_id none, and neither the job store nor a scheduler
\* thread ever holds a job for it.
C11_InvoiceSentNoTrigger ==
  \A o \in DOMAIN orders :
    orders[o].csv_format = "dance_invoice" =>
      /\ orders[o].status = "sent"
      /\ orders[o].job_id = None
      /\ \A j \in jobs : j.order_id # o
      /\ \A r \in running : r.id # o

\* C11 witness: an invoice batch has been imported and its order is stored.
C11_Witness ==
  /\ req.op = "index" /\ req.pc = "done"
  /\ \E o \in DOMAIN orders : orders[o].csv_format = "dance_invoice"

\* C12: at the import of a non-invoice row, if send_time is strictly after
\* now a job keyed to the new order is registered and its id recorded as the
\* order's job_id; otherwise no job is registered and the immediate send of
\* the new order reaches its dispatch (the row is found and, when its
\* templates format, yag.send is called).
C12_ScheduleOrSendNow ==
  [][/\ (req.op = "index" /\ req.pc = "insert" /\ req' # req) =>
          IF req.send_time > now
          THEN /\ req'.pc = "row"
               /\ \E j \in jobs' \ jobs :
                    j.order_id = nextId /\ txn'.rows[nextId].job_id = j.id
          ELSE /\ jobs' = jobs
               /\ req'.pc = "fetch" /\ req'.id = nextId
     /\ ( /\ req.op = "index" /\ req.pc = "fetch" /\ req' # req
          /\ RenderOk(txn.rows[req.id]) )
        => req'.pc = "send"]_vars

\* C13 (as claimed): the send_time stored for a non-invoice row equals its
\* pickup date-time minus the 4 hour lead, whatever now is at import.
C13_SendAtExact ==
  [][(req.op = "index" /\ req.pc = "insert" /\ req' # req) =>
       txn'.rows[nextId].send_time = Head(req.rows) - LeadMinutes]_vars

\* C13 (amended): the send_time resolved for a non-invoice row equals its
\* pickup date-time minus the 4 hour lead when that is not before now, and
\* now plus 5 minutes when it is; that value is the one inserted, committed
\* and kept for as long as the order is stored.
C13_SendAtExactOrClamped ==
  [][/\ (req.op = "index" /\ req.pc = "row" /\ req'.pc = "insert") =>
          req'.send_time =
            IF Head(req.rows) - LeadMinutes >= now
            THEN Head(req.rows) - LeadMinutes
            ELSE now + ClampMinutes
     /\ (req.op = "index" /\ req.pc = "insert" /\ req' # req) =>
          txn'.rows[nextId].send_time = req.send_time
     /\ \A o \in DOMAIN orders' :
          /\ o \in DOMAIN txn.rows =>
               orders'[o].send_time = txn.rows[o].send_time
          /\ o \in DOMAIN orders =>
               orders'[o].send_time = orders[o].send_time]_vars

\* C13 witness: a stored non-invoice order whose send_time is not the pickup
\* time of any row minus the lead: it was moved to now plus 5 minutes.
C13_Witness ==
  \E o \in DOMAIN orders :
    /\ orders[o].csv_format # "dance_invoice"
    /\ orders[o].send_time \notin {p - LeadMinutes : p \in PickupTimes}

\* C14: parse_pickup_time applied to a range start-end returns the time of
\* day of the start bound (what it returns for the start text alone); for
\* "4:30PM-7:30PM" that is 16:30.
C14_RangeStartTime ==
  (pickup_time_obj # Unparsed /\ "-" \in Chars(pickup_str)) =>
    /\ pickup_time_obj = parse_pickup_time(BeforeDash(pickup_str))
    /\ pickup_str = <<"4", ":", "3", "0", "P", "M", "-",
                      "7", ":", "3", "0", "P", "M">>
         => pickup_time_obj = <<16, 30>>

\* C15: when an import batch commits, every row that does not raise has been
\* processed whatever rows raised before or after it: the success count
\* equals the number of such rows, it is the count flashed, and it equals
\* the number of order records of the batch in the store.
C15_BatchSurvivesBadRow ==
  [][( /\ req.op = "index" /\ req.pc = "row" /\ req.rows = <<>>
       /\ req'.pc = "done" )
     => LET n == Inserting(req.args)
        IN /\ req.count = n
           /\ flashes'[Len(flashes')] =
                Flash("success", "Successfully processed", n)
           /\ Cardinality({o \in DOMAIN orders' :
                             nextId - n <= o /\ o < nextId}) = n]_vars

\* C15 witness: a batch whose first row raised and whose second row was
\* processed has committed: one error, a count of one, the order stored.
C15_Witness ==
  /\ req.op = "index" /\ req.pc = "done"
  /\ flashes = <<Flash("error", "Error processing row", 1),
                 Flash("success", "Successfully processed", 1)>>
  /\ nextId - 1 \in DOMAIN orders

\* C16: a stored order has status sent only if a dispatch for that order
\* has succeeded.
C16_SentOnlyIfDelivered ==
  \A o \in DOMAIN orders : orders[o].status = "sent" => delivered[o] >= 1

\* C17: every non-invoice order stored pending with a registered trigger
\* (its templates format, its run date lies within the clock's range) is
\* eventually dispatched and marked sent, when the scheduler fires every
\* trigger, the transport succeeds and no delete or manual send is issued.
C17_EventuallySent ==
  \A o \in OrderIds :
    []( ( /\ o \in DOMAIN orders
          /\ orders[o].csv_format # "dance_invoice"
          /\ orders[o].status = "pending"
          /\ orders[o].job_id # None
          /\ RenderOk(orders[o])
          /\ orders[o].send_time <= MaxTicks * ClampMinutes )
        => <>( /\ o \in DOMAIN orders
               /\ orders[o].status = "sent"
               /\ delivered[o] >= 1 ) )

\* C18: a stored order's job_id is not none only if its status is pending
\* and the job store still holds the job with that id.
C18_TriggerRefOnlyWhileActive ==
  \A o \in DOMAIN orders :
    orders[o].job_id # None =>
      /\ orders[o].status = "pending"
      /\ \E j \in jobs : j.id = orders[o].job_id

\* C19: send_bulk's count goes up only for an order whose status moves from
\* pending to sent in the call, and the count flashed is that count.
C19_BulkCountsSent ==
  [][/\ ( /\ req.op = "send_bulk" /\ req'.op = "send_bulk"
          /\ req'.count = req.count + 1 )
        => /\ req.id \in DOMAIN orders /\ req.id \in DOMAIN orders'
           /\ orders[req.id].status = "pending"
           /\ orders'[req.id].status = "sent"
     /\ ( /\ req.op = "send_bulk" /\ req.pc = "loop" /\ req'.pc = "done" )
        => flashes'[Len(flashes')] = Flash("success", "Sent", req.count)]_vars

\* C20: send_order, or an iteration of send_bulk, for an order whose status
\* is already sent dispatches nothing, removes no job and leaves the stored
\* orders as they are.
C20_ResendIsNoop ==
  [][\A o \in DOMAIN orders :
       ( /\ orders[o].status = "sent"
         /\ running' = running /\ now' = now
         /\ \/ /\ req.pc = "done" /\ req'.op = "send_order"
               /\ req'.args = <<o>>
            \/ /\ req.op = "send_bulk" /\ req.pc = "loop" /\ req.ids # <<>>
               /\ Head(req.ids) = o /\ req' # req )
       => /\ req'.pc = IF req'.op = "send_order" THEN "done" ELSE "loop"
          /\ req'.count = req.count
          /\ orders' = orders
          /\ jobs' = jobs
          /\ delivered' = delivered]_vars

\* C20 witness: send_order has returned for an order that was already sent,
\* without having called send_reminder_email.
C20_Witness ==
  \E o \in DOMAIN orders :
    /\ req.op = "send_order" /\ req.pc = "done" /\ req.args = <<o>>
    /\ orders[o].status = "sent"
    /\ flashes = <<>>

\* C21: for a pending order whose job_id names a job the scheduler no
\* longer holds, delete_order, delete_bulk, send_order and send_bulk still
\* complete their step: the cancellation changes nothing and raises nothing,
\* the record is deleted, or send_reminder_email is called for the order.
C21_StaleCancelIsNoop ==
  [][\A o \in DOMAIN orders :
       ( /\ orders[o].status = "pending"
         /\ orders[o].job_id # None
         /\ \A j \in jobs : j.id # orders[o].job_id
         /\ req' # req )
       => /\ (req.pc = "done" /\ req'.op = "delete_order" /\ req'.args = <<o>>)
             => /\ o \notin DOMAIN orders'
                /\ flashes' = <<Flash("success",
                                      "Order deleted successfully", o)>>
                /\ jobs' = jobs
          /\ (req.pc = "done" /\ req'.op = "send_order" /\ req'.args = <<o>>)
             => /\ req'.pc = "fetch" /\ req'.id = o
                /\ jobs' = jobs
          /\ ( /\ req.op = "delete_bulk" /\ req.pc = "loop" /\ req.ids # <<>>
               /\ Head(req.ids) = o /\ o \notin txn.dels )
             => /\ o \in txn'.dels
                /\ req'.pc = "loop" /\ req'.count = req.count + 1
                /\ jobs' = jobs
          /\ ( /\ req.op = "send_bulk" /\ req.pc = "loop" /\ req.ids # <<>>
               /\ Head(req.ids) = o )
             => /\ req'.pc = "fetch" /\ req'.id = o
                /\ jobs' = jobs]_vars

\* C21 witness: delete_order has removed a pending order whose job was
\* running on a scheduler thread, hence no longer in the job store.
C21_Witness ==
  /\ req.op = "delete_order" /\ req.pc = "done"
  /\ \E o \in DOMAIN removed :
       /\ req.args = <<o>>
       /\ removed[o].status = "pending"
       /\ removed[o].job_id # None
       /\ \E r \in running : r.job = removed[o].job_id

\* C22: when send_order returns, a success flash is present only if the
\* order's status is sent; a failed render or dispatch leaves an error
\* flash and no success flash.
C22_SendOrderReportsOutcome ==
  [][( /\ req.op = "send_order" /\ req.pc # "done" /\ req'.pc = "done" )
     => LET success == \E i \in 1..Len(flashes') :
                         flashes'[i].category = "success"
            error == \E i \in 1..Len(flashes') :
                       flashes'[i].category = "error"
        IN /\ success => /\ req.id \in DOMAIN orders'
                         /\ orders'[req.id].status = "sent"
                         /\ req.pc = "update"
           /\ error => ~success]_vars

=============================================================================
